---- MODULE Spec2Model ----
(***************************************************************************)
(* YX5300 serial MP3 module driver (src/src/YX5300.c, include/YX5300.h).   *)
(*                                                                         *)
(* The handler (YX5300_Handler_t) is the three variables Platform, Rx and  *)
(* Status.  The inbound UART line is the variable wire: the module puts a  *)
(* run of bytes on it and the reception context hands them to YX5300_Rx    *)
(* one at a time.  last and rxLog record what the calls returned and what  *)
(* they handed to the transport, so that the properties can speak of       *)
(* return values and of the frames sent.                                   *)
(***************************************************************************)
EXTENDS Integers, Sequences, FiniteSets, TLC

(* ---------------------------------------------------------------------- *)
(* Constants of the driver                                                 *)
(* ---------------------------------------------------------------------- *)
YX5300_RESPONSE_SIZE == 10

YX5300_OK == 0
YX5300_FAIL == 1
YX5300_INVALID_PARAM == 2
YX5300_RX_COMPLETE == 3

YX5300_CMD_START_BYTE == 126
YX5300_CMD_VERSION == 255
YX5300_CMD_FEEDBACK == 1
YX5300_CMD_END_BYTE == 239

YX5300_CMD_NEXT == 1
YX5300_CMD_PREV == 2
YX5300_CMD_PLAY_INDEX == 3
YX5300_CMD_VOL_UP == 4
YX5300_CMD_VOL_DOWN == 5
YX5300_CMD_VOL_SET == 6
YX5300_CMD_SEL_DEV == 9
YX5300_CMD_RESET == 12
YX5300_CMD_PLAY == 13
YX5300_CMD_PAUSE == 14
YX5300_CMD_PLAY_FOLD_FILE == 15
YX5300_CMD_STOP == 22
YX5300_CMD_QUERY_STATUS == 66
YX5300_CMD_QUERY_VOLUME == 67
YX5300_CMD_PLAYING_N == 76

(* ---------------------------------------------------------------------- *)
(* Bounds of the model                                                     *)
(* ---------------------------------------------------------------------- *)
\* number of byte runs the module puts on the line in one behaviour
MaxChunks == 2
\* length of the longest run of line noise
MaxGarbage == 12

(* ---------------------------------------------------------------------- *)
(* The handler                                                             *)
(* ---------------------------------------------------------------------- *)
VARIABLES Platform, Rx, Status, wire, chunks, rxLog, Cached0, last, cmd

vars == <<Platform, Rx, Status, wire, chunks, rxLog, Cached0, last, cmd>>

\* uint8_t / uint16_t conversions
U8(x) == x % 256

U16(x) == x % 65536

\* Handler->Rx of a zero-initialised handler
ZeroRx ==
  [Buffer |-> [i \in 0..(YX5300_RESPONSE_SIZE - 1) |-> 0],
   BufferIndex |-> 0,
   InFrame |-> 0]

\* Handler->Status of a zero-initialised handler
ZeroStatus ==
  [LastCommand |-> 0, LastResponse |-> 0,
   LastCommandData |-> 0, LastResponseData |-> 0,
   Volume |-> 0, Track |-> 0, StatusByte |-> 0, MemoryInserted |-> 0]

\* the cached module attributes of a Status record
Cached(St) ==
  [Volume |-> St.Volume, Track |-> St.Track, StatusByte |-> St.StatusByte,
   MemoryInserted |-> St.MemoryInserted]

\* Handler->Platform: TRUE where the function pointer is linked, FALSE
\* where it is NULL
PlatformLinked == [Init |-> TRUE, DeInit |-> TRUE, Delay |-> TRUE, Send |-> TRUE]

PlatformConfigs == [Init : BOOLEAN, DeInit : BOOLEAN, Delay : BOOLEAN, Send : BOOLEAN]

\* one call of a transport capability: fn(arg / data) returned ret
TxCall(fn, arg, data, ret) == [fn |-> fn, arg |-> arg, data |-> data, ret |-> ret]

NoCall == [op |-> "none", args |-> <<>>, Ret |-> YX5300_OK, Tx |-> <<>>]

\* the command context is not inside YX5300_SendCommand
CmdIdle == [pc |-> "idle", op |-> "none", args |-> <<>>, Command |-> 0,
            Data1 |-> 0, Data2 |-> 0, Tx |-> <<>>, run |-> 0, logAt |-> 0]

(* ---------------------------------------------------------------------- *)
(* Private functions                                                       *)
(* ---------------------------------------------------------------------- *)
\* YX5300_SendCommand that leaves the last-response fields alone
SendCommand_KeepResponse(St, Command, Data1, Data2, sendRet) ==
  LET Data == <<YX5300_CMD_START_BYTE, YX5300_CMD_VERSION, 6, Command,
                YX5300_CMD_FEEDBACK, Data1, Data2, YX5300_CMD_END_BYTE>>
      call == TxCall("Send", 8, Data, sendRet)
  IN IF sendRet < 0
       THEN [Ret |-> YX5300_FAIL, Status |-> St, Tx |-> <<call>>]
       ELSE [Ret |-> YX5300_OK,
             Status |-> [St EXCEPT !.LastCommand = Command,
                                   !.LastCommandData = U16(Data1 * 256 + Data2)],
             Tx |-> <<call>>]

\* YX5300_SendCommand recording the command before it is sent
SendCommand_RecordFirst(St, Command, Data1, Data2, sendRet) ==
  LET Data == <<YX5300_CMD_START_BYTE, YX5300_CMD_VERSION, 6, Command,
                YX5300_CMD_FEEDBACK, Data1, Data2, YX5300_CMD_END_BYTE>>
      call == TxCall("Send", 8, Data, sendRet)
      S1 == [St EXCEPT !.LastCommand = Command,
                       !.LastCommandData = U16(Data1 * 256 + Data2),
                       !.LastResponse = 0,
                       !.LastResponseData = 0]
  IN IF sendRet < 0
       THEN [Ret |-> YX5300_FAIL, Status |-> S1, Tx |-> <<call>>]
       ELSE [Ret |-> YX5300_OK, Status |-> S1, Tx |-> <<call>>]

\* YX5300_SendCommand caching the volume it sets
SendCommand_CacheVolume(St, Command, Data1, Data2, sendRet) ==
  LET Data == <<YX5300_CMD_START_BYTE, YX5300_CMD_VERSION, 6, Command,
                YX5300_CMD_FEEDBACK, Data1, Data2, YX5300_CMD_END_BYTE>>
      call == TxCall("Send", 8, Data, sendRet)
  IN IF sendRet < 0
       THEN [Ret |-> YX5300_FAIL, Status |-> St, Tx |-> <<call>>]
       ELSE [Ret |-> YX5300_OK,
             Status |-> [St EXCEPT !.LastCommand = Command,
                                   !.LastCommandData = U16(Data1 * 256 + Data2),
                                   !.LastResponse = 0,
                                   !.LastResponseData = 0,
                                   !.Volume = IF Command = YX5300_CMD_VOL_SET
                                                THEN Data2 ELSE St.Volume],
             Tx |-> <<call>>]

\* YX5300_SendCommand with the transport's Send returning sendRet
YX5300_SendCommand(St, Command, Data1, Data2, sendRet) ==
  LET Data == <<YX5300_CMD_START_BYTE, YX5300_CMD_VERSION, 6, Command,
                YX5300_CMD_FEEDBACK, Data1, Data2, YX5300_CMD_END_BYTE>>
      call == TxCall("Send", 8, Data, sendRet)
  IN IF sendRet < 0
       THEN [Ret |-> YX5300_FAIL, Status |-> St, Tx |-> <<call>>]
       ELSE [Ret |-> YX5300_OK,
             Status |-> [St EXCEPT !.LastCommand = Command,
                                   !.LastCommandData = U16(Data1 * 256 + Data2),
                                   !.LastResponse = 0,
                                   !.LastResponseData = 0],
             Tx |-> <<call>>]

\* YX5300_ParseResponse taking the data from offsets 6 and 7
ParseResponse_DataAt67(St, Buffer) ==
  LET S1 == [St EXCEPT !.LastResponse = Buffer[3],
                       !.LastResponseData = U16(Buffer[6] * 256 + Buffer[7])]
      ok(S) == [Ret |-> YX5300_OK, Status |-> S]
  IN CASE S1.LastResponse = 58 -> ok([S1 EXCEPT !.MemoryInserted = 1])
       [] S1.LastResponse = 61 -> ok([S1 EXCEPT !.Track = 0])
       [] S1.LastResponse \in {64, 65, 76, 78, 79} -> ok(S1)
       [] S1.LastResponse = 66 ->
            LET S2 == [S1 EXCEPT !.StatusByte = U8(S1.LastResponseData)]
            IN ok(IF S2.StatusByte = 0 THEN [S2 EXCEPT !.Track = 0] ELSE S2)
       [] S1.LastResponse = 67 -> ok([S1 EXCEPT !.Volume = U8(S1.LastResponseData)])
       [] S1.LastResponse = 72 -> ok([S1 EXCEPT !.Track = S1.LastResponseData])
       [] OTHER -> [Ret |-> YX5300_FAIL, Status |-> S1]

\* YX5300_ParseResponse without the case for 0x4E
ParseResponse_No4E(St, Buffer) ==
  LET S1 == [St EXCEPT !.LastResponse = Buffer[3],
                       !.LastResponseData = U16(Buffer[5] * 256 + Buffer[6])]
      ok(S) == [Ret |-> YX5300_OK, Status |-> S]
  IN CASE S1.LastResponse = 58 -> ok([S1 EXCEPT !.MemoryInserted = 1])
       [] S1.LastResponse = 61 -> ok([S1 EXCEPT !.Track = 0])
       [] S1.LastResponse \in {64, 65, 76, 79} -> ok(S1)
       [] S1.LastResponse = 66 ->
            LET S2 == [S1 EXCEPT !.StatusByte = U8(S1.LastResponseData)]
            IN ok(IF S2.StatusByte = 0 THEN [S2 EXCEPT !.Track = 0] ELSE S2)
       [] S1.LastResponse = 67 -> ok([S1 EXCEPT !.Volume = U8(S1.LastResponseData)])
       [] S1.LastResponse = 72 -> ok([S1 EXCEPT !.Track = S1.LastResponseData])
       [] OTHER -> [Ret |-> YX5300_FAIL, Status |-> S1]

\* YX5300_ParseResponse recording the response only once it is recognised
ParseResponse_RecordKnown(St, Buffer) ==
  LET S1 == [St EXCEPT !.LastResponse = Buffer[3],
                       !.LastResponseData = U16(Buffer[5] * 256 + Buffer[6])]
      ok(S) == [Ret |-> YX5300_OK, Status |-> S]
  IN CASE S1.LastResponse = 58 -> ok([S1 EXCEPT !.MemoryInserted = 1])
       [] S1.LastResponse = 61 -> ok([S1 EXCEPT !.Track = 0])
       [] S1.LastResponse \in {64, 65, 76, 78, 79} -> ok(S1)
       [] S1.LastResponse = 66 ->
            LET S2 == [S1 EXCEPT !.StatusByte = U8(S1.LastResponseData)]
            IN ok(IF S2.StatusByte = 0 THEN [S2 EXCEPT !.Track = 0] ELSE S2)
       [] S1.LastResponse = 67 -> ok([S1 EXCEPT !.Volume = U8(S1.LastResponseData)])
       [] S1.LastResponse = 72 -> ok([S1 EXCEPT !.Track = S1.LastResponseData])
       [] OTHER -> [Ret |-> YX5300_FAIL, Status |-> St]

\* YX5300_ParseResponse taking an unrecognised reply for the loss of the card
ParseResponse_UnknownClearsCard(St, Buffer) ==
  LET S1 == [St EXCEPT !.LastResponse = Buffer[3],
                       !.LastResponseData = U16(Buffer[5] * 256 + Buffer[6])]
      ok(S) == [Ret |-> YX5300_OK, Status |-> S]
  IN CASE S1.LastResponse = 58 -> ok([S1 EXCEPT !.MemoryInserted = 1])
       [] S1.LastResponse = 61 -> ok([S1 EXCEPT !.Track = 0])
       [] S1.LastResponse \in {64, 65, 76, 78, 79} -> ok(S1)
       [] S1.LastResponse = 66 ->
            LET S2 == [S1 EXCEPT !.StatusByte = U8(S1.LastResponseData)]
            IN ok(IF S2.StatusByte = 0 THEN [S2 EXCEPT !.Track = 0] ELSE S2)
       [] S1.LastResponse = 67 -> ok([S1 EXCEPT !.Volume = U8(S1.LastResponseData)])
       [] S1.LastResponse = 72 -> ok([S1 EXCEPT !.Track = S1.LastResponseData])
       [] OTHER -> [Ret |-> YX5300_FAIL,
                    Status |-> [S1 EXCEPT !.MemoryInserted = 0]]

\* YX5300_ParseResponse resetting the track only when all sixteen bits of
\* a status reply are 0
ParseResponse_WideStatusTest(St, Buffer) ==
  LET S1 == [St EXCEPT !.LastResponse = Buffer[3],
                       !.LastResponseData = U16(Buffer[5] * 256 + Buffer[6])]
      ok(S) == [Ret |-> YX5300_OK, Status |-> S]
  IN CASE S1.LastResponse = 58 -> ok([S1 EXCEPT !.MemoryInserted = 1])
       [] S1.LastResponse = 61 -> ok([S1 EXCEPT !.Track = 0])
       [] S1.LastResponse \in {64, 65, 76, 78, 79} -> ok(S1)
       [] S1.LastResponse = 66 ->
            LET S2 == [S1 EXCEPT !.StatusByte = U8(S1.LastResponseData)]
            IN ok(IF S1.LastResponseData = 0 THEN [S2 EXCEPT !.Track = 0] ELSE S2)
       [] S1.LastResponse = 67 -> ok([S1 EXCEPT !.Volume = U8(S1.LastResponseData)])
       [] S1.LastResponse = 72 -> ok([S1 EXCEPT !.Track = S1.LastResponseData])
       [] OTHER -> [Ret |-> YX5300_FAIL, Status |-> S1]

\* YX5300_ParseResponse keeping the track on a track-complete notification
ParseResponse_KeepTrack(St, Buffer) ==
  LET S1 == [St EXCEPT !.LastResponse = Buffer[3],
                       !.LastResponseData = U16(Buffer[5] * 256 + Buffer[6])]
      ok(S) == [Ret |-> YX5300_OK, Status |-> S]
  IN CASE S1.LastResponse = 58 -> ok([S1 EXCEPT !.MemoryInserted = 1])
       [] S1.LastResponse \in {61, 64, 65, 76, 78, 79} -> ok(S1)
       [] S1.LastResponse = 66 ->
            LET S2 == [S1 EXCEPT !.StatusByte = U8(S1.LastResponseData)]
            IN ok(IF S2.StatusByte = 0 THEN [S2 EXCEPT !.Track = 0] ELSE S2)
       [] S1.LastResponse = 67 -> ok([S1 EXCEPT !.Volume = U8(S1.LastResponseData)])
       [] S1.LastResponse = 72 -> ok([S1 EXCEPT !.Track = S1.LastResponseData])
       [] OTHER -> [Ret |-> YX5300_FAIL, Status |-> S1]

\* YX5300_ParseResponse resetting the track on every status reply
ParseResponse_StatusResets(St, Buffer) ==
  LET S1 == [St EXCEPT !.LastResponse = Buffer[3],
                       !.LastResponseData = U16(Buffer[5] * 256 + Buffer[6])]
      ok(S) == [Ret |-> YX5300_OK, Status |-> S]
  IN CASE S1.LastResponse = 58 -> ok([S1 EXCEPT !.MemoryInserted = 1])
       [] S1.LastResponse = 61 -> ok([S1 EXCEPT !.Track = 0])
       [] S1.LastResponse \in {64, 65, 76, 78, 79} -> ok(S1)
       [] S1.LastResponse = 66 ->
            ok([S1 EXCEPT !.StatusByte = U8(S1.LastResponseData), !.Track = 0])
       [] S1.LastResponse = 67 -> ok([S1 EXCEPT !.Volume = U8(S1.LastResponseData)])
       [] S1.LastResponse = 72 -> ok([S1 EXCEPT !.Track = S1.LastResponseData])
       [] OTHER -> [Ret |-> YX5300_FAIL, Status |-> S1]

\* YX5300_ParseResponse on the receive buffer Buffer
YX5300_ParseResponse(St, Buffer) ==
  LET S1 == [St EXCEPT !.LastResponse = Buffer[3],
                       !.LastResponseData = U16(Buffer[5] * 256 + Buffer[6])]
      ok(S) == [Ret |-> YX5300_OK, Status |-> S]
  IN CASE S1.LastResponse = 58 -> ok([S1 EXCEPT !.MemoryInserted = 1])
       [] S1.LastResponse = 61 -> ok([S1 EXCEPT !.Track = 0])
       [] S1.LastResponse = 64 -> ok(S1)
       [] S1.LastResponse = 65 -> ok(S1)
       [] S1.LastResponse = 66 ->
            LET S2 == [S1 EXCEPT !.StatusByte = U8(S1.LastResponseData)]
            IN ok(IF S2.StatusByte = 0 THEN [S2 EXCEPT !.Track = 0] ELSE S2)
       [] S1.LastResponse = 67 -> ok([S1 EXCEPT !.Volume = U8(S1.LastResponseData)])
       [] S1.LastResponse = 72 -> ok([S1 EXCEPT !.Track = S1.LastResponseData])
       [] S1.LastResponse = 76 -> ok(S1)
       [] S1.LastResponse = 78 -> ok(S1)
       [] S1.LastResponse = 79 -> ok(S1)
       [] OTHER -> [Ret |-> YX5300_FAIL, Status |-> S1]

\* YX5300_Rx storing the byte at the cursor without the test against the
\* capacity
RxResult_NoBoundCheck(R, St, Data) ==
  LET idx == R.BufferIndex
      buf == IF idx \in DOMAIN R.Buffer THEN [R.Buffer EXCEPT ![idx] = Data]
                                        ELSE R.Buffer
      out(ret, i, S) == [Ret |-> ret,
                         Rx |-> [R EXCEPT !.Buffer = buf, !.BufferIndex = i],
                         Status |-> S,
                         At |-> idx]
  IN IF idx = 0
       THEN out(YX5300_OK, IF Data = YX5300_CMD_START_BYTE THEN 1 ELSE 0, St)
       ELSE IF Data = YX5300_CMD_END_BYTE
              THEN LET p == YX5300_ParseResponse(St, buf)
                   IN out(IF p.Ret # YX5300_OK THEN YX5300_FAIL
                                               ELSE YX5300_RX_COMPLETE,
                          0, p.Status)
              ELSE out(YX5300_OK, U8(idx + 1), St)

\* YX5300_Rx recording the response code as soon as it is stored
RxResult_EagerCode(R, St, Data) ==
  LET idx == IF R.BufferIndex >= YX5300_RESPONSE_SIZE THEN 0 ELSE R.BufferIndex
      buf == [R.Buffer EXCEPT ![idx] = Data]
      out(ret, i, S) == [Ret |-> ret,
                         Rx |-> [R EXCEPT !.Buffer = buf, !.BufferIndex = i],
                         Status |-> S,
                         At |-> idx]
  IN IF idx = 0
       THEN out(YX5300_OK, IF Data = YX5300_CMD_START_BYTE THEN 1 ELSE 0, St)
       ELSE IF Data = YX5300_CMD_END_BYTE
              THEN LET p == YX5300_ParseResponse(St, buf)
                   IN out(IF p.Ret # YX5300_OK THEN YX5300_FAIL
                                               ELSE YX5300_RX_COMPLETE,
                          0, p.Status)
              ELSE out(YX5300_OK, U8(idx + 1),
                       IF idx = 3 THEN [St EXCEPT !.LastResponse = Data] ELSE St)

\* YX5300_Rx beginning a new frame at every start marker
RxResult_RestartOnStart(R, St, Data) ==
  LET idx == IF \/ R.BufferIndex >= YX5300_RESPONSE_SIZE
                \/ Data = YX5300_CMD_START_BYTE
               THEN 0 ELSE R.BufferIndex
      buf == [R.Buffer EXCEPT ![idx] = Data]
      out(ret, i, S) == [Ret |-> ret,
                         Rx |-> [R EXCEPT !.Buffer = buf, !.BufferIndex = i],
                         Status |-> S,
                         At |-> idx]
  IN IF idx = 0
       THEN out(YX5300_OK, IF Data = YX5300_CMD_START_BYTE THEN 1 ELSE 0, St)
       ELSE IF Data = YX5300_CMD_END_BYTE
              THEN LET p == YX5300_ParseResponse(St, buf)
                   IN out(IF p.Ret # YX5300_OK THEN YX5300_FAIL
                                               ELSE YX5300_RX_COMPLETE,
                          0, p.Status)
              ELSE out(YX5300_OK, U8(idx + 1), St)

\* YX5300_Rx losing the byte that arrives with the cursor at the capacity
RxResult_DropOverflow(R, St, Data) ==
  LET over == R.BufferIndex >= YX5300_RESPONSE_SIZE
      idx == IF over THEN 0 ELSE R.BufferIndex
      buf == [R.Buffer EXCEPT ![idx] = Data]
      out(ret, i, S) == [Ret |-> ret,
                         Rx |-> [R EXCEPT !.Buffer = buf, !.BufferIndex = i],
                         Status |-> S,
                         At |-> idx]
  IN IF idx = 0
       THEN out(YX5300_OK,
                IF ~over /\ Data = YX5300_CMD_START_BYTE THEN 1 ELSE 0, St)
       ELSE IF Data = YX5300_CMD_END_BYTE
              THEN LET p == YX5300_ParseResponse(St, buf)
                   IN out(IF p.Ret # YX5300_OK THEN YX5300_FAIL
                                               ELSE YX5300_RX_COMPLETE,
                          0, p.Status)
              ELSE out(YX5300_OK, U8(idx + 1), St)

\* YX5300_Rx wrapping around at the capacity: the byte that overflows is
\* stored at offset 0 whatever it is
RxResult_Wrap(R, St, Data) ==
  LET over == R.BufferIndex >= YX5300_RESPONSE_SIZE
      idx == IF over THEN 0 ELSE R.BufferIndex
      buf == [R.Buffer EXCEPT ![idx] = Data]
      out(ret, i, S) == [Ret |-> ret,
                         Rx |-> [R EXCEPT !.Buffer = buf, !.BufferIndex = i],
                         Status |-> S,
                         At |-> idx]
  IN IF idx = 0
       THEN out(YX5300_OK,
                IF over \/ Data = YX5300_CMD_START_BYTE THEN 1 ELSE 0, St)
       ELSE IF Data = YX5300_CMD_END_BYTE
              THEN LET p == YX5300_ParseResponse(St, buf)
                   IN out(IF p.Ret # YX5300_OK THEN YX5300_FAIL
                                               ELSE YX5300_RX_COMPLETE,
                          0, p.Status)
              ELSE out(YX5300_OK, U8(idx + 1), St)

\* YX5300_Rx resetting the cursor only above the capacity
RxResult_LateReset(R, St, Data) ==
  LET idx == IF R.BufferIndex > YX5300_RESPONSE_SIZE THEN 0 ELSE R.BufferIndex
      buf == IF idx \in DOMAIN R.Buffer THEN [R.Buffer EXCEPT ![idx] = Data]
                                        ELSE R.Buffer
      out(ret, i, S) == [Ret |-> ret,
                         Rx |-> [R EXCEPT !.Buffer = buf, !.BufferIndex = i],
                         Status |-> S,
                         At |-> idx]
  IN IF idx = 0
       THEN out(YX5300_OK, IF Data = YX5300_CMD_START_BYTE THEN 1 ELSE 0, St)
       ELSE IF Data = YX5300_CMD_END_BYTE
              THEN LET p == YX5300_ParseResponse(St, buf)
                   IN out(IF p.Ret # YX5300_OK THEN YX5300_FAIL
                                               ELSE YX5300_RX_COMPLETE,
                          0, p.Status)
              ELSE out(YX5300_OK, U8(idx + 1), St)

\* YX5300_Rx advancing the cursor at offset 0 whatever the byte is
RxResult_NoStartCheck(R, St, Data) ==
  LET idx == IF R.BufferIndex >= YX5300_RESPONSE_SIZE THEN 0 ELSE R.BufferIndex
      buf == [R.Buffer EXCEPT ![idx] = Data]
      out(ret, i, S) == [Ret |-> ret,
                         Rx |-> [R EXCEPT !.Buffer = buf, !.BufferIndex = i],
                         Status |-> S,
                         At |-> idx]
  IN IF idx = 0
       THEN out(YX5300_OK, 1, St)
       ELSE IF Data = YX5300_CMD_END_BYTE
              THEN LET p == YX5300_ParseResponse(St, buf)
                   IN out(IF p.Ret # YX5300_OK THEN YX5300_FAIL
                                               ELSE YX5300_RX_COMPLETE,
                          0, p.Status)
              ELSE out(YX5300_OK, U8(idx + 1), St)

\* the body of YX5300_Rx: the return value, the handler afterwards and
\* the buffer offset the byte was stored at
RxResult(R, St, Data) ==
  LET idx == IF R.BufferIndex >= YX5300_RESPONSE_SIZE THEN 0 ELSE R.BufferIndex
      buf == [R.Buffer EXCEPT ![idx] = Data]
      out(ret, i, S) == [Ret |-> ret,
                         Rx |-> [R EXCEPT !.Buffer = buf, !.BufferIndex = i],
                         Status |-> S,
                         At |-> idx]
  IN IF idx = 0
       THEN out(YX5300_OK, IF Data = YX5300_CMD_START_BYTE THEN 1 ELSE 0, St)
       ELSE IF Data = YX5300_CMD_END_BYTE
              THEN LET p == YX5300_ParseResponse(St, buf)
                   IN out(IF p.Ret # YX5300_OK THEN YX5300_FAIL
                                               ELSE YX5300_RX_COMPLETE,
                          0, p.Status)
              ELSE out(YX5300_OK, U8(idx + 1), St)

(* ---------------------------------------------------------------------- *)
(* The inbound line                                                        *)
(* ---------------------------------------------------------------------- *)
\* a 10-byte response frame: code at offset 3, b5..b8 at offsets 5..8
Frame(code, b5, b6, b7, b8) ==
  <<YX5300_CMD_START_BYTE, YX5300_CMD_VERSION, 6, code, 0, b5, b6, b7, b8,
    YX5300_CMD_END_BYTE>>

\* the response codes the module sends, and one it does not (0x99)
ModuleCodes == {58, 61, 64, 65, 66, 67, 72, 76, 78, 79}

UnknownCodes == {153}

\* values of the byte before the end marker
AnyByte == {0, 90, YX5300_CMD_START_BYTE, YX5300_CMD_END_BYTE}

\* a run of n bytes of line noise without a start marker; it contains end
\* markers and response codes
Noise(n) == [i \in 1..n |-> <<0, YX5300_CMD_END_BYTE, 67, 255>>[(i % 4) + 1]]

\* replies as the module sends them, data 0x001A
Replies == {Frame(c, 0, 26, 254, 186) : c \in ModuleCodes \cup UnknownCodes}

\* replies with data in the high byte and in both bytes
WideReplies == {Frame(c, 1, 0, 254, 186) : c \in {66, 67}} \cup
               {Frame(c, 1, 2, 254, 186) : c \in {72}}

\* frames with 0x1A at offset 7 and frames with an unknown code
ShiftedFrames == {Frame(67, 0, 0, 26, x) : x \in AnyByte} \cup
                 {Frame(c, 0, 0, 0, x) : c \in UnknownCodes, x \in AnyByte}

\* a reply cut short by an end marker after n bytes
CutFrames == {SubSeq(Frame(72, 1, 2, 254, 186), 1, n) \o <<YX5300_CMD_END_BYTE>> :
                 n \in 1..8}

\* a start marker followed by bytes without an end marker, one of them a
\* second start marker
LongFrame(n) ==
  <<YX5300_CMD_START_BYTE, 255, 6, 67, YX5300_CMD_START_BYTE>> \o [i \in 1..n |-> 7]

LongFrames == {LongFrame(n) : n \in {2, 5, 6}}

\* line noise, alone and followed by a reply
NoisyFrames == {Noise(n) : n \in {1, YX5300_RESPONSE_SIZE, MaxGarbage}} \cup
               {Noise(n) \o Frame(c, 0, 26, 254, 186) :
                  n \in {1, YX5300_RESPONSE_SIZE, MaxGarbage}, c \in {58, 67}}

\* track-complete notifications 7E FF 06 3D 00 00 00 00 xx EF and a volume
\* reply carrying 31
EventFrames == {Frame(61, 0, 0, 0, x) : x \in AnyByte} \cup
               {Frame(67, 0, 31, 254, 186)}

\* status replies: stopped, playing, paused
StatusReplies == {Frame(66, 0, d, 254, 186) : d \in 0..2}

\* the first n bytes of a reply: the line goes quiet in mid-frame
Stubs == {SubSeq(Frame(67, 0, 26, 254, 186), 1, n) :
            n \in 1..(YX5300_RESPONSE_SIZE - 1)}

\* two frames back to back
Doubles == {f \o g : f \in {Frame(72, 1, 2, 254, 186), Frame(64, 0, 3, 254, 186)},
                     g \in {Frame(67, 0, 26, 254, 186), Frame(90, 0, 0, 254, 186)}}

\* replies with both data bytes in use
HighByteReplies == {Frame(c, 2, 31, 254, 186) : c \in {66, 67, 72}}

\* a start marker, nine bytes without an end marker, and one byte more
Overruns == {body \o <<b>> :
               body \in {LongFrame(5),
                         <<YX5300_CMD_START_BYTE, 255, 6, 67, 0, 0, 26, 254, 186, 7>>},
               b \in AnyByte}

AllChunks == Replies \cup WideReplies \cup ShiftedFrames \cup CutFrames \cup
             LongFrames \cup NoisyFrames \cup EventFrames \cup StatusReplies \cup
             Stubs \cup Doubles \cup Overruns \cup HighByteReplies

\* the runs reception is fed while command operations interleave
FewChunks == {Frame(67, 0, 26, 254, 186), Frame(58, 0, 0, 0, 0), LongFrame(5)} \cup
             {Frame(c, 0, 0, 0, 0) : c \in UnknownCodes} \cup
             {Frame(76, 0, 26, 254, 186), Frame(67, 0, 31, 254, 186)}

(* ---------------------------------------------------------------------- *)
(* Initial states                                                          *)
(* ---------------------------------------------------------------------- *)
ZeroHandler ==
  /\ Rx = ZeroRx
  /\ Status = ZeroStatus
  /\ wire = <<>>
  /\ chunks = 0
  /\ rxLog = <<>>
  /\ Cached0 = Cached(ZeroStatus)
  /\ last = NoCall
  /\ cmd = CmdIdle

\* a zero-initialised handler linked by YX5300_Platform_Init
Init ==
  /\ ZeroHandler
  /\ Platform = PlatformLinked

\* a zero-initialised handler with any subset of the capabilities linked
InitCmd ==
  /\ ZeroHandler
  /\ Platform \in PlatformConfigs

\* the receive state of a handler that was declared without an initialiser:
\* the cursor is any uint8_t, the buffer holds zeros or an old frame
AnyRx ==
  {[Buffer |-> b, BufferIndex |-> c, InFrame |-> 0] :
     b \in {ZeroRx.Buffer,
            [i \in 0..(YX5300_RESPONSE_SIZE - 1) |->
               Frame(67, 0, 26, 254, 186)[i + 1]]},
     c \in 0..255}

\* a linked handler whose receive state was not initialised
InitAnyRx ==
  /\ Platform = PlatformLinked
  /\ Rx \in AnyRx
  /\ Status = ZeroStatus
  /\ wire = <<>>
  /\ chunks = 0
  /\ rxLog = <<>>
  /\ Cached0 = Cached(ZeroStatus)
  /\ last = NoCall
  /\ cmd = CmdIdle

(* ---------------------------------------------------------------------- *)
(* Reception                                                               *)
(* ---------------------------------------------------------------------- *)
\* the module (or the line) emits a run of bytes
ModuleSends(chunk) ==
  /\ wire = <<>>
  /\ chunks < MaxChunks
  /\ wire' = chunk
  /\ chunks' = chunks + 1
  /\ rxLog' = <<>>
  /\ Cached0' = Cached(Status)
  /\ UNCHANGED <<Platform, Rx, Status, last, cmd>>

\* the reception context calls YX5300_Rx with the next byte of the line
YX5300_Rx ==
  /\ wire # <<>>
  /\ LET Data == Head(wire)
         r == RxResult(Rx, Status, Data)
     IN /\ Rx' = r.Rx
        /\ Status' = r.Status
        /\ rxLog' = Append(rxLog, [Data |-> Data, Ret |-> r.Ret,
                                   Index |-> Rx.BufferIndex, At |-> r.At,
                                   Kept |-> (r.Status = Status)])
        /\ last' = [op |-> "Rx", args |-> <<Data>>, Ret |-> r.Ret, Tx |-> <<>>]
  /\ wire' = Tail(wire)
  /\ UNCHANGED <<Platform, chunks, Cached0, cmd>>

NextRx ==
  \/ \E chunk \in AllChunks : ModuleSends(chunk)
  \/ YX5300_Rx

SpecRx == Init /\ [][NextRx]_vars

\* reception on a handler whose receive state was not initialised
SpecRxAny == InitAnyRx /\ [][NextRx]_vars

(* ---------------------------------------------------------------------- *)
(* Public command operations                                               *)
(* ---------------------------------------------------------------------- *)
\* arguments and transport return values the callers pass
Tracks == {0, 1, 255, 256, 258, 65535}

Volumes == {0, 1, 29, 30, 31, 255}

Folders == {0, 1, 255}

Files == {0, 2, 255}

SendRets == {-1, 0, 1}

\* a public operation that is a single call of YX5300_SendCommand.  The
\* operations call Platform.Send without a NULL check; the header makes
\* linking Send mandatory, so they are called only with Send linked.
CommandOp(op, args, Command, Data1, Data2, sendRet) ==
  /\ Platform.Send
  /\ LET r == YX5300_SendCommand(Status, Command, Data1, Data2, sendRet)
     IN /\ Status' = r.Status
        /\ last' = [op |-> op, args |-> args, Ret |-> r.Ret, Tx |-> r.Tx]
  /\ UNCHANGED <<Platform, Rx, wire, chunks, rxLog, Cached0, cmd>>

YX5300_UpdateStatus(sendRet) ==
  CommandOp("UpdateStatus", <<>>, YX5300_CMD_QUERY_STATUS, 0, 0, sendRet)

YX5300_UpdateVolume(sendRet) ==
  CommandOp("UpdateVolume", <<>>, YX5300_CMD_QUERY_VOLUME, 0, 0, sendRet)

YX5300_UpdateTrack(sendRet) ==
  CommandOp("UpdateTrack", <<>>, YX5300_CMD_PLAYING_N, 0, 0, sendRet)

YX5300_PlayNext(sendRet) ==
  CommandOp("PlayNext", <<>>, YX5300_CMD_NEXT, 0, 0, sendRet)

YX5300_PlayPrev(sendRet) ==
  CommandOp("PlayPrev", <<>>, YX5300_CMD_PREV, 0, 0, sendRet)

YX5300_VolumeUp(sendRet) ==
  CommandOp("VolumeUp", <<>>, YX5300_CMD_VOL_UP, 0, 0, sendRet)

YX5300_VolumeDown(sendRet) ==
  CommandOp("VolumeDown", <<>>, YX5300_CMD_VOL_DOWN, 0, 0, sendRet)

\* YX5300_SetVolume passing the argument on as it is
ClampVolume_None(Volume) == Volume

\* the volume byte YX5300_SetVolume sends for the argument Volume
ClampVolume(Volume) == IF Volume > 30 THEN 30 ELSE Volume

YX5300_SetVolume(Volume, sendRet) ==
  CommandOp("SetVolume", <<Volume>>, YX5300_CMD_VOL_SET, 0, ClampVolume(Volume),
            sendRet)

\* the bytes of Track low byte first
TrackBytes_LowFirst(Track) == <<U8(Track % 256), U8(Track \div 256)>>

\* the two data bytes YX5300_PlayTrack sends for the uint16_t Track
TrackBytes(Track) == <<U8(Track \div 256), U8(Track % 256)>>

YX5300_PlayTrack(Track, sendRet) ==
  CommandOp("PlayTrack", <<Track>>, YX5300_CMD_PLAY_INDEX,
            TrackBytes(Track)[1], TrackBytes(Track)[2], sendRet)

YX5300_PlayFolderFile(Folder, File, sendRet) ==
  CommandOp("PlayFolderFile", <<Folder, File>>, YX5300_CMD_PLAY_FOLD_FILE,
            Folder, File, sendRet)

YX5300_Resume(sendRet) ==
  CommandOp("Resume", <<>>, YX5300_CMD_PLAY, 0, 0, sendRet)

YX5300_Pause(sendRet) ==
  CommandOp("Pause", <<>>, YX5300_CMD_PAUSE, 0, 0, sendRet)

YX5300_Stop(sendRet) ==
  CommandOp("Stop", <<>>, YX5300_CMD_STOP, 0, 0, sendRet)

(* ---------------------------------------------------------------------- *)
(* Initialisation                                                          *)
(* ---------------------------------------------------------------------- *)
Delay500 == TxCall("Delay", 500, <<>>, 0)

\* YX5300_Init going on after the reset frame could not be sent
InitResult_IgnoreReset(P, St, null, initRet, sendRet1, sendRet2) ==
  IF null
    THEN [Ret |-> YX5300_INVALID_PARAM, Status |-> St, Tx |-> <<>>]
  ELSE IF ~P.Delay \/ ~P.Send
    THEN [Ret |-> YX5300_INVALID_PARAM, Status |-> St, Tx |-> <<>>]
  ELSE
    LET t0 == IF P.Init THEN <<TxCall("Init", 0, <<>>, initRet)>> ELSE <<>>
        t1 == t0 \o <<Delay500>>
        c1 == YX5300_SendCommand(St, YX5300_CMD_RESET, 0, 0, sendRet1)
        t2 == t1 \o c1.Tx \o <<Delay500>>
        c2 == YX5300_SendCommand(c1.Status, YX5300_CMD_SEL_DEV, 0, 2, sendRet2)
    IN IF c2.Ret # YX5300_OK
         THEN [Ret |-> YX5300_FAIL, Status |-> c2.Status, Tx |-> t2 \o c2.Tx]
       ELSE [Ret |-> YX5300_OK, Status |-> c2.Status,
             Tx |-> t2 \o c2.Tx \o <<Delay500>>]

\* YX5300_Init waiting before it initialises the platform
InitResult_DelayFirst(P, St, null, initRet, sendRet1, sendRet2) ==
  IF null
    THEN [Ret |-> YX5300_INVALID_PARAM, Status |-> St, Tx |-> <<>>]
  ELSE IF ~P.Delay \/ ~P.Send
    THEN [Ret |-> YX5300_INVALID_PARAM, Status |-> St, Tx |-> <<>>]
  ELSE
    LET t0 == IF P.Init THEN <<TxCall("Init", 0, <<>>, initRet)>> ELSE <<>>
        t1 == <<Delay500>> \o t0
        c1 == YX5300_SendCommand(St, YX5300_CMD_RESET, 0, 0, sendRet1)
        t2 == t1 \o c1.Tx \o <<Delay500>>
        c2 == YX5300_SendCommand(c1.Status, YX5300_CMD_SEL_DEV, 0, 2, sendRet2)
    IN IF c1.Ret # YX5300_OK
         THEN [Ret |-> YX5300_FAIL, Status |-> c1.Status, Tx |-> t1 \o c1.Tx]
       ELSE IF c2.Ret # YX5300_OK
         THEN [Ret |-> YX5300_FAIL, Status |-> c2.Status, Tx |-> t2 \o c2.Tx]
       ELSE [Ret |-> YX5300_OK, Status |-> c2.Status,
             Tx |-> t2 \o c2.Tx \o <<Delay500>>]

\* YX5300_Init rejecting the handler only when both capabilities are missing
InitResult_BothMissing(P, St, null, initRet, sendRet1, sendRet2) ==
  IF null
    THEN [Ret |-> YX5300_INVALID_PARAM, Status |-> St, Tx |-> <<>>]
  ELSE IF ~P.Delay /\ ~P.Send
    THEN [Ret |-> YX5300_INVALID_PARAM, Status |-> St, Tx |-> <<>>]
  ELSE
    LET t0 == IF P.Init THEN <<TxCall("Init", 0, <<>>, initRet)>> ELSE <<>>
        t1 == t0 \o <<Delay500>>
        c1 == YX5300_SendCommand(St, YX5300_CMD_RESET, 0, 0, sendRet1)
        t2 == t1 \o c1.Tx \o <<Delay500>>
        c2 == YX5300_SendCommand(c1.Status, YX5300_CMD_SEL_DEV, 0, 2, sendRet2)
    IN IF c1.Ret # YX5300_OK
         THEN [Ret |-> YX5300_FAIL, Status |-> c1.Status, Tx |-> t1 \o c1.Tx]
       ELSE IF c2.Ret # YX5300_OK
         THEN [Ret |-> YX5300_FAIL, Status |-> c2.Status, Tx |-> t2 \o c2.Tx]
       ELSE [Ret |-> YX5300_OK, Status |-> c2.Status,
             Tx |-> t2 \o c2.Tx \o <<Delay500>>]

\* the body of YX5300_Init: null says the Handler argument is NULL,
\* initRet is what Platform.Init returns, sendRet1 and sendRet2 what
\* Platform.Send returns on the reset and on the select-device frame
InitResult(P, St, null, initRet, sendRet1, sendRet2) ==
  IF null
    THEN [Ret |-> YX5300_INVALID_PARAM, Status |-> St, Tx |-> <<>>]
  ELSE IF ~P.Delay \/ ~P.Send
    THEN [Ret |-> YX5300_INVALID_PARAM, Status |-> St, Tx |-> <<>>]
  ELSE
    LET t0 == IF P.Init THEN <<TxCall("Init", 0, <<>>, initRet)>> ELSE <<>>
        t1 == t0 \o <<Delay500>>
        c1 == YX5300_SendCommand(St, YX5300_CMD_RESET, 0, 0, sendRet1)
        t2 == t1 \o c1.Tx \o <<Delay500>>
        c2 == YX5300_SendCommand(c1.Status, YX5300_CMD_SEL_DEV, 0, 2, sendRet2)
    IN IF c1.Ret # YX5300_OK
         THEN [Ret |-> YX5300_FAIL, Status |-> c1.Status, Tx |-> t1 \o c1.Tx]
       ELSE IF c2.Ret # YX5300_OK
         THEN [Ret |-> YX5300_FAIL, Status |-> c2.Status, Tx |-> t2 \o c2.Tx]
       ELSE [Ret |-> YX5300_OK, Status |-> c2.Status,
             Tx |-> t2 \o c2.Tx \o <<Delay500>>]

YX5300_Init(null, initRet, sendRet1, sendRet2) ==
  /\ LET r == InitResult(Platform, Status, null, initRet, sendRet1, sendRet2)
     IN /\ Status' = r.Status
        /\ last' = [op |-> "Init", args |-> <<IF null THEN 1 ELSE 0>>,
                    Ret |-> r.Ret, Tx |-> r.Tx]
  /\ UNCHANGED <<Platform, Rx, wire, chunks, rxLog, Cached0, cmd>>

YX5300_DeInit(null, deinitRet) ==
  /\ last' = [op |-> "DeInit", args |-> <<IF null THEN 1 ELSE 0>>,
              Ret |-> IF null THEN YX5300_INVALID_PARAM ELSE YX5300_OK,
              Tx |-> IF ~null /\ Platform.DeInit
                       THEN <<TxCall("DeInit", 0, <<>>, deinitRet)>>
                       ELSE <<>>]
  /\ UNCHANGED <<Platform, Rx, Status, wire, chunks, rxLog, Cached0, cmd>>

(* ---------------------------------------------------------------------- *)
(* Specifications                                                          *)
(* ---------------------------------------------------------------------- *)
\* the command operations alone, on every linking of the capabilities
NextCmd ==
  \/ \E r \in SendRets : YX5300_UpdateStatus(r)
  \/ \E r \in SendRets : YX5300_UpdateVolume(r)
  \/ \E r \in SendRets : YX5300_UpdateTrack(r)
  \/ \E r \in SendRets : YX5300_PlayNext(r)
  \/ \E r \in SendRets : YX5300_PlayPrev(r)
  \/ \E r \in SendRets : YX5300_VolumeUp(r)
  \/ \E r \in SendRets : YX5300_VolumeDown(r)
  \/ \E v \in Volumes, r \in SendRets : YX5300_SetVolume(v, r)
  \/ \E t \in Tracks, r \in SendRets : YX5300_PlayTrack(t, r)
  \/ \E f \in Folders, n \in Files, r \in SendRets : YX5300_PlayFolderFile(f, n, r)
  \/ \E r \in SendRets : YX5300_Resume(r)
  \/ \E r \in SendRets : YX5300_Pause(r)
  \/ \E r \in SendRets : YX5300_Stop(r)
  \/ \E null \in BOOLEAN, i \in {-1, 0}, r1 \in SendRets, r2 \in SendRets :
       YX5300_Init(null, i, r1, r2)
  \/ \E null \in BOOLEAN, d \in {-1, 0} : YX5300_DeInit(null, d)

SpecCmd == InitCmd /\ [][NextCmd]_vars

\* reception interleaved with the command operations
Next ==
  \/ \E chunk \in FewChunks : ModuleSends(chunk)
  \/ YX5300_Rx
  \/ \E r \in {-1, 0} : YX5300_UpdateStatus(r)
  \/ \E r \in {-1, 0} : YX5300_UpdateVolume(r)
  \/ \E r \in {-1, 0} : YX5300_UpdateTrack(r)
  \/ \E r \in {-1, 0} : YX5300_PlayNext(r)
  \/ \E r \in {-1, 0} : YX5300_PlayPrev(r)
  \/ \E r \in {-1, 0} : YX5300_VolumeUp(r)
  \/ \E r \in {-1, 0} : YX5300_VolumeDown(r)
  \/ \E v \in {31}, r \in {-1, 0} : YX5300_SetVolume(v, r)
  \/ \E t \in {258}, r \in {-1, 0} : YX5300_PlayTrack(t, r)
  \/ \E f \in {1}, n \in {2}, r \in {-1, 0} : YX5300_PlayFolderFile(f, n, r)
  \/ \E r \in {-1, 0} : YX5300_Resume(r)
  \/ \E r \in {-1, 0} : YX5300_Pause(r)
  \/ \E r \in {-1, 0} : YX5300_Stop(r)
  \/ \E r1 \in {-1, 0}, r2 \in {-1, 0} : YX5300_Init(FALSE, 0, r1, r2)
  \/ YX5300_DeInit(FALSE, 0)

Spec == Init /\ [][Next]_vars

(* ---------------------------------------------------------------------- *)
(* YX5300_SendCommand statement by statement, with reception in between    *)
(* ---------------------------------------------------------------------- *)
\* the command operations the command context runs while bytes arrive
RaceCommands == {<<"UpdateVolume", YX5300_CMD_QUERY_VOLUME>>,
                 <<"UpdateTrack", YX5300_CMD_PLAYING_N>>}

\* the frame is built and handed to Platform.Send, which returns sendRet;
\* a negative value ends the operation with YX5300_FAIL
SendCommand_Send(op, Command, sendRet) ==
  /\ cmd.pc = "idle"
  /\ Platform.Send
  /\ LET Data == <<YX5300_CMD_START_BYTE, YX5300_CMD_VERSION, 6, Command,
                   YX5300_CMD_FEEDBACK, 0, 0, YX5300_CMD_END_BYTE>>
         call == TxCall("Send", 8, Data, sendRet)
     IN IF sendRet < 0
          THEN /\ last' = [op |-> op, args |-> <<>>, Ret |-> YX5300_FAIL,
                           Tx |-> <<call>>]
               /\ cmd' = cmd
          ELSE /\ last' = last
               /\ cmd' = [pc |-> "LastCommand", op |-> op, args |-> <<>>,
                          Command |-> Command, Data1 |-> 0, Data2 |-> 0,
                          Tx |-> <<call>>, run |-> chunks, logAt |-> Len(rxLog)]
  /\ UNCHANGED <<Platform, Rx, Status, wire, chunks, rxLog, Cached0>>

\* the next of the four assignments that follow the send
SendCommand_Store ==
  /\ cmd.pc \in {"LastCommand", "LastCommandData", "LastResponse",
                  "LastResponseData"}
  /\ Status' =
       CASE cmd.pc = "LastCommand" ->
              [Status EXCEPT !.LastCommand = cmd.Command]
         [] cmd.pc = "LastCommandData" ->
              [Status EXCEPT !.LastCommandData =
                               U16(cmd.Data1 * 256 + cmd.Data2)]
         [] cmd.pc = "LastResponse" ->
              [Status EXCEPT !.LastResponse = 0]
         [] cmd.pc = "LastResponseData" ->
              [Status EXCEPT !.LastResponseData = 0]
  /\ cmd' = [cmd EXCEPT !.pc =
               CASE cmd.pc = "LastCommand" -> "LastCommandData"
                 [] cmd.pc = "LastCommandData" -> "LastResponse"
                 [] cmd.pc = "LastResponse" -> "LastResponseData"
                 [] cmd.pc = "LastResponseData" -> "return"]
  /\ UNCHANGED <<Platform, Rx, wire, chunks, rxLog, Cached0, last>>

\* return YX5300_OK
SendCommand_Return ==
  /\ cmd.pc = "return"
  /\ last' = [op |-> cmd.op, args |-> cmd.args, Ret |-> YX5300_OK,
              Tx |-> cmd.Tx]
  /\ cmd' = [cmd EXCEPT !.pc = "idle"]
  /\ UNCHANGED <<Platform, Rx, Status, wire, chunks, rxLog, Cached0>>

NextRace ==
  \/ \E chunk \in FewChunks : ModuleSends(chunk)
  \/ YX5300_Rx
  \/ \E c \in RaceCommands, r \in {-1, 0} : SendCommand_Send(c[1], c[2], r)
  \/ SendCommand_Store
  \/ SendCommand_Return

\* the reception context interrupts the command context between statements
SpecRace == Init /\ [][NextRace]_vars

(* ---------------------------------------------------------------------- *)
(* Properties                                                              *)
(* ---------------------------------------------------------------------- *)
\* the bytes YX5300_Rx has been called with since the run began
Fed == [i \in 1..Len(rxLog) |-> rxLog[i].Data]

\* the run on the line is one of frames, it began with the cursor at 0 and
\* every byte of it has been handed to YX5300_Rx
FedFromEmpty(frames) ==
  /\ wire = <<>>
  /\ rxLog # <<>>
  /\ rxLog[1].Index = 0
  /\ Fed \in frames

Returned(ret) == \E i \in 1..Len(rxLog) : rxLog[i].Ret = ret

\* the cursor after the k-th call of the run
CursorAfter(k) == IF k < Len(rxLog) THEN rxLog[k + 1].Index ELSE Rx.BufferIndex

\* 7E FF 06 43 00 00 00 1A xx EF
C1Frames == {Frame(67, 0, 0, 26, x) : x \in AnyByte}

\* C1 as stated: fed from cursor 0, the frame 7E FF 06 43 00 00 00 1A xx EF
\* is reported complete (some call returns YX5300_RX_COMPLETE, none
\* YX5300_FAIL) and the cached volume is 26 afterwards.
C1_Volume26 ==
  FedFromEmpty(C1Frames) =>
    /\ Returned(YX5300_RX_COMPLETE)
    /\ ~Returned(YX5300_FAIL)
    /\ Status.Volume = 26

\* C1 amended: fed from cursor 0, the frame 7E FF 06 43 00 00 00 1A xx EF
\* is reported complete (some call returns YX5300_RX_COMPLETE, none
\* YX5300_FAIL) and the cached volume is 0 afterwards: the data is read
\* from offsets 5 and 6, the 0x1A at offset 7 is not read.
C1_VolumeFromOffsets56 ==
  FedFromEmpty(C1Frames) =>
    /\ Returned(YX5300_RX_COMPLETE)
    /\ ~Returned(YX5300_FAIL)
    /\ Status.Volume = 0
    /\ Status.LastResponse = 67
    /\ Status.LastResponseData = 0

\* the frame arrived while the cached volume was 26
C1_Witness ==
  /\ FedFromEmpty(C1Frames)
  /\ Cached0.Volume = 26
  /\ Status.Volume = 0

\* the public command operations
CommandNames ==
  {"PlayNext", "PlayPrev", "PlayTrack", "VolumeUp", "VolumeDown", "SetVolume",
   "PlayFolderFile", "Resume", "Pause", "Stop", "UpdateStatus", "UpdateVolume",
   "UpdateTrack"}

\* the command table of the wire format
TableCode(op) ==
  CASE op = "PlayNext" -> 1
    [] op = "PlayPrev" -> 2
    [] op = "PlayTrack" -> 3
    [] op = "VolumeUp" -> 4
    [] op = "VolumeDown" -> 5
    [] op = "SetVolume" -> 6
    [] op = "Resume" -> 13
    [] op = "Pause" -> 14
    [] op = "PlayFolderFile" -> 15
    [] op = "Stop" -> 22
    [] op = "UpdateStatus" -> 66
    [] op = "UpdateVolume" -> 67
    [] op = "UpdateTrack" -> 76

\* the data bytes (D1, D2) of an operation called with args
TableData(op, args) ==
  CASE op = "PlayTrack" -> <<args[1] \div 256, args[1] % 256>>
    [] op = "SetVolume" -> <<0, IF args[1] < 30 THEN args[1] ELSE 30>>
    [] op = "PlayFolderFile" -> <<args[1], args[2]>>
    [] OTHER -> <<0, 0>>

\* C2: every public command operation hands the transport exactly one
\* buffer of length 8, [0x7E, 0xFF, 0x06, CMD, 0x01, D1, D2, 0xEF], with CMD
\* from the command table and (D1, D2) = (0, 0) except PlayTrack(t) =
\* (t >> 8, t & 0xFF), SetVolume(v) = (0, min(v, 30)), PlayFolderFile(f, n)
\* = (f, n).
C2_CommandFrame ==
  last.op \in CommandNames =>
    /\ Len(last.Tx) = 1
    /\ last.Tx[1].fn = "Send"
    /\ last.Tx[1].arg = 8
    /\ last.Tx[1].data = <<126, 255, 6, TableCode(last.op), 1,
                           TableData(last.op, last.args)[1],
                           TableData(last.op, last.args)[2], 239>>

\* PlayTrack(0x0102) sent 01 02
C2_Witness ==
  /\ last.op = "PlayTrack"
  /\ last.args = <<258>>
  /\ last.Tx[1].data[6] = 1
  /\ last.Tx[1].data[7] = 2

\* the response codes YX5300_Rx recognises, as the claim lists them
RecognisedCodes == {58, 61, 64, 65, 66, 67, 72, 76, 78, 79}

\* C3: YX5300_Rx returns YX5300_RX_COMPLETE exactly when the byte is 0xEF,
\* the cursor was in 1..9 and the byte at offset 3 of the buffer is a
\* recognised response code; YX5300_FAIL exactly when the byte is 0xEF, the
\* cursor was in 1..9 and the byte at offset 3 is anything else; YX5300_OK
\* in every other case.
C3_RxOutcome ==
  rxLog # <<>> =>
    LET e == rxLog[Len(rxLog)]
        ended == e.Data = 239 /\ e.Index \in 1..9
        known == Rx.Buffer[3] \in RecognisedCodes
    IN /\ e.Ret \in {YX5300_OK, YX5300_FAIL, YX5300_RX_COMPLETE}
       /\ (e.Ret = YX5300_RX_COMPLETE) <=> (ended /\ known)
       /\ (e.Ret = YX5300_FAIL) <=> (ended /\ ~known)
       /\ (e.Ret = YX5300_OK) <=> ~ended

\* a folder-count reply (0x4E) was completed
C3_Witness ==
  /\ rxLog # <<>>
  /\ rxLog[Len(rxLog)].Ret = YX5300_RX_COMPLETE
  /\ rxLog[Len(rxLog)].Index = 9
  /\ Rx.Buffer[3] = 78

\* 7E FF 06 99 00 00 00 00 xx EF
C4Frames == {Frame(153, 0, 0, 0, x) : x \in AnyByte}

\* C4: a complete frame with the unrecognised code 0x99 is reported with
\* YX5300_FAIL, leaves Volume, Track, StatusByte and MemoryInserted as they
\* were, writes the frame's code and data to LastResponse and
\* LastResponseData, and returns the cursor to 0.
C4_UnknownCode ==
  FedFromEmpty(C4Frames) =>
    /\ Returned(YX5300_FAIL)
    /\ ~Returned(YX5300_RX_COMPLETE)
    /\ Cached(Status) = Cached0
    /\ Status.LastResponse = 153
    /\ Status.LastResponseData = 0
    /\ Rx.BufferIndex = 0

\* the frame arrived with a track cached and another reply recorded
C4_Witness ==
  /\ FedFromEmpty(C4Frames)
  /\ Cached0.Track = 26
  /\ Status.LastResponse = 153

\* the first k bytes of the run contain no start marker
NoStart(k) == \A i \in 1..k : rxLog[i].Data # 126

\* well-formed replies of the module
WellFormed == {Frame(c, 0, 26, 254, 186) : c \in RecognisedCodes}

\* C5: while a run fed from cursor 0 contains no 0x7E, every YX5300_Rx call
\* returns YX5300_OK, the cursor stays 0 and no Device State field changes,
\* whatever the length of the run; a well-formed reply fed right after the
\* run is reported with YX5300_RX_COMPLETE on its last byte.
C5_NoStartMarker ==
  (rxLog # <<>> /\ rxLog[1].Index = 0) =>
    /\ \A k \in 1..Len(rxLog) :
         NoStart(k) => /\ rxLog[k].Ret = YX5300_OK
                       /\ rxLog[k].Kept
                       /\ CursorAfter(k) = 0
    /\ \A k \in 1..Len(rxLog) :
         (/\ wire = <<>>
          /\ NoStart(k)
          /\ Len(rxLog) = k + YX5300_RESPONSE_SIZE
          /\ [i \in 1..YX5300_RESPONSE_SIZE |-> rxLog[k + i].Data] \in WellFormed)
         => /\ rxLog[Len(rxLog)].Ret = YX5300_RX_COMPLETE
            /\ \A j \in (k + 1)..(Len(rxLog) - 1) : rxLog[j].Ret = YX5300_OK

\* a run of at least capacity bytes with an end marker in it, then a reply
C5_Witness ==
  /\ wire = <<>>
  /\ Len(rxLog) >= 2 * YX5300_RESPONSE_SIZE
  /\ rxLog[1].Index = 0
  /\ NoStart(Len(rxLog) - YX5300_RESPONSE_SIZE)
  /\ \E i \in 1..(Len(rxLog) - YX5300_RESPONSE_SIZE) : rxLog[i].Data = 239
  /\ rxLog[Len(rxLog)].Ret = YX5300_RX_COMPLETE

\* C6 as stated: the receive cursor Rx.BufferIndex is always in 0..9.
C6_CursorBelowCapacity ==
  Rx.BufferIndex \in 0..9

\* C6 amended: the receive cursor Rx.BufferIndex is always in 0..10; it is
\* 10 (the capacity) only after a call that stored a byte other than 0xEF
\* at offset 9, the next call resets it before it stores, and every call
\* stores its byte at an offset in 0..9.
C6_CursorAtMostCapacity ==
  /\ Rx.BufferIndex \in 0..10
  /\ \A i \in 1..Len(rxLog) :
       /\ rxLog[i].At \in 0..9
       /\ rxLog[i].Index = 10 => rxLog[i].At = 0
       /\ CursorAfter(i) = 10 => (rxLog[i].At = 9 /\ rxLog[i].Data # 239)

\* a command operation ran while the cursor was at the capacity
C6_Witness ==
  /\ Rx.BufferIndex = 10
  /\ last.op \in CommandNames

\* C7: when Send fails on the reset frame YX5300_Init returns YX5300_FAIL,
\* sends no select-device frame and calls no further delay; when Send fails
\* on the select-device frame it returns YX5300_FAIL without the last
\* delay; it never returns YX5300_OK after a failed send.
C7_InitStopsAtFailure ==
  last.op = "Init" =>
    \A i \in 1..Len(last.Tx) :
      (last.Tx[i].fn = "Send" /\ last.Tx[i].ret < 0) =>
        /\ last.Ret = YX5300_FAIL
        /\ i = Len(last.Tx)
        /\ last.Tx[i].data[4] = 12 =>
             /\ \A j \in 1..Len(last.Tx) : last.Tx[j].data # <<126, 255, 6, 9, 1, 0, 2, 239>>
             /\ Cardinality({j \in 1..Len(last.Tx) : last.Tx[j].fn = "Delay"}) = 1
        /\ last.Tx[i].data[4] = 9 =>
             Cardinality({j \in 1..Len(last.Tx) : last.Tx[j].fn = "Delay"}) = 2

\* the reset frame could not be sent
C7_Witness ==
  /\ last.op = "Init"
  /\ last.Tx # <<>>
  /\ last.Tx[Len(last.Tx)].fn = "Send"
  /\ last.Tx[Len(last.Tx)].ret < 0
  /\ last.Tx[Len(last.Tx)].data[4] = 12

\* a transport call without its return value
Called(c) == <<c.fn, c.arg, c.data>>

\* C8: with Delay and Send linked and every send succeeding, YX5300_Init
\* returns YX5300_OK after exactly: the platform Init if linked, Delay(500),
\* Send(reset frame), Delay(500), Send(select-device frame, data 0 2),
\* Delay(500).
C8_InitSequence ==
  (/\ last.op = "Init"
   /\ last.args = <<0>>
   /\ Platform.Delay
   /\ Platform.Send
   /\ \A i \in 1..Len(last.Tx) : last.Tx[i].fn = "Send" => last.Tx[i].ret >= 0)
  => /\ last.Ret = YX5300_OK
     /\ [i \in 1..Len(last.Tx) |-> Called(last.Tx[i])] =
          (IF Platform.Init THEN <<(<<"Init", 0, <<>>>>)>> ELSE <<>>) \o
          << <<"Delay", 500, <<>>>>,
             <<"Send", 8, <<126, 255, 6, 12, 1, 0, 0, 239>>>>,
             <<"Delay", 500, <<>>>>,
             <<"Send", 8, <<126, 255, 6, 9, 1, 0, 2, 239>>>>,
             <<"Delay", 500, <<>>>> >>

\* YX5300_Init succeeded with the platform Init linked and failing
C8_Witness ==
  /\ last.op = "Init"
  /\ last.Ret = YX5300_OK
  /\ Len(last.Tx) = 6
  /\ last.Tx[1].ret < 0

\* C9: with a NULL handler, or Delay or Send not linked, YX5300_Init
\* returns YX5300_INVALID_PARAM, calls no transport capability and changes
\* nothing in the handler.
C9_InitInvalid ==
  [][\A null \in BOOLEAN, i \in {-1, 0}, r1 \in SendRets, r2 \in SendRets :
       (YX5300_Init(null, i, r1, r2) /\ (null \/ ~Platform.Delay \/ ~Platform.Send))
         => /\ last'.Ret = YX5300_INVALID_PARAM
            /\ last'.Tx = <<>>
            /\ UNCHANGED <<Platform, Rx, Status>>]_vars

\* YX5300_Init was rejected for a missing Send with Delay linked
C9_Witness ==
  /\ last.op = "Init"
  /\ last.args = <<0>>
  /\ last.Ret = YX5300_INVALID_PARAM
  /\ Platform.Delay
  /\ ~Platform.Send

\* C10: after a public command operation whose send succeeded, the
\* operation has returned YX5300_OK, LastCommand is the code sent,
\* LastCommandData is (D1 << 8) | D2 of the frame sent, and LastResponse
\* and LastResponseData are 0.
C10_CommandRecorded ==
  (last.op \in CommandNames /\ last.Tx # <<>> /\ last.Tx[1].ret >= 0) =>
    /\ last.Ret = YX5300_OK
    /\ Status.LastCommand = TableCode(last.op)
    /\ Status.LastCommand = last.Tx[1].data[4]
    /\ Status.LastCommandData = last.Tx[1].data[6] * 256 + last.Tx[1].data[7]
    /\ Status.LastResponse = 0
    /\ Status.LastResponseData = 0

\* a command was sent after a reply had been parsed
C10_Witness ==
  /\ last.op = "PlayTrack"
  /\ last.Ret = YX5300_OK
  /\ Status.LastCommandData = 258
  /\ rxLog # <<>>
  /\ rxLog[Len(rxLog)].Ret = YX5300_RX_COMPLETE

\* C11: a public command operation whose send reports failure returns
\* YX5300_FAIL and leaves the whole handler as it was: the last-command and
\* last-response fields, the cached fields, the receive buffer and the
\* cursor, and the platform links.
C11_SendFailureKeepsState ==
  [][(/\ last' # last
      /\ last'.op \in CommandNames
      /\ last'.Tx # <<>>
      /\ last'.Tx[1].ret < 0) =>
       (/\ last'.Ret = YX5300_FAIL
        /\ UNCHANGED <<Platform, Rx, Status>>)]_vars

\* a command failed to send after another command had been recorded and a
\* reply parsed
C11_Witness ==
  /\ last.op \in CommandNames
  /\ last.Tx # <<>>
  /\ last.Tx[1].ret < 0
  /\ last.Ret = YX5300_FAIL
  /\ Status.LastResponse # 0
  /\ Status.LastCommand # 0
  /\ Status.LastCommand # TableCode(last.op)
  /\ Rx.BufferIndex # 0

\* C12: YX5300_SetVolume(v) with v above 30 sends the frame of
\* YX5300_SetVolume(30) and, when the send succeeds, records LastCommand 6
\* and LastCommandData 30; with v in 0..30 the low data byte is v; the
\* result is YX5300_OK whenever the send succeeds.
C12_SetVolumeClamps ==
  (last.op = "SetVolume" /\ last.Tx # <<>>) =>
    LET v == last.args[1]
        sent == last.Tx[1]
    IN /\ v > 30 => sent.data = <<126, 255, 6, 6, 1, 0, 30, 239>>
       /\ v <= 30 => sent.data[7] = v
       /\ sent.ret >= 0 =>
            /\ last.Ret = YX5300_OK
            /\ Status.LastCommand = 6
            /\ Status.LastCommandData = IF v > 30 THEN 30 ELSE v

\* the volume 255 was asked for and sent as 30
C12_Witness ==
  /\ last.op = "SetVolume"
  /\ last.args = <<255>>
  /\ last.Ret = YX5300_OK
  /\ Status.LastCommandData = 30

\* 7E FF 06 3D 00 00 00 00 xx EF
C13Frames == {Frame(61, 0, 0, 0, x) : x \in AnyByte}

\* C13: feeding the track-complete frame 7E FF 06 3D 00 00 00 00 xx EF from
\* cursor 0 yields YX5300_RX_COMPLETE and no YX5300_FAIL, and afterwards
\* Status.Track is 0 whatever it was before, with Status.Volume,
\* Status.StatusByte and Status.MemoryInserted as they were before the frame.
C13_TrackCompleteResetsTrack ==
  FedFromEmpty(C13Frames) =>
    /\ Returned(YX5300_RX_COMPLETE)
    /\ ~Returned(YX5300_FAIL)
    /\ Status.Track = 0
    /\ Status.Volume = Cached0.Volume
    /\ Status.StatusByte = Cached0.StatusByte
    /\ Status.MemoryInserted = Cached0.MemoryInserted

\* the track was not 0 before the track-complete frame
C13_Witness ==
  /\ FedFromEmpty(C13Frames)
  /\ Cached0.Track # 0
  /\ Status.Track = 0

\* C14: after YX5300_UpdateTrack has returned YX5300_OK and the reply
\* 7E FF 06 4C 00 00 1A FE BA EF has been fed to YX5300_Rx up to
\* YX5300_RX_COMPLETE, Status.Track is the track number 26 of the reply.
C14_TrackFromPlayingReply ==
  (/\ FedFromEmpty({Frame(76, 0, 26, 254, 186)})
   /\ Status.LastCommand = YX5300_CMD_PLAYING_N
   /\ Status.LastResponse = 76
   /\ rxLog[Len(rxLog)].Ret = YX5300_RX_COMPLETE) =>
     Status.Track = 26

\* 7E FF 06 42 00 dl FE BA EF and 7E FF 06 42 01 00 FE BA EF
C17Frames == StatusReplies \cup {Frame(66, 0, 26, 254, 186), Frame(66, 1, 0, 254, 186)}

\* C17: a completed frame with response code 0x42 fed from cursor 0 yields
\* YX5300_RX_COMPLETE on its last byte, Status.StatusByte is the byte at
\* offset 6 of the frame, Status.Track is 0 if that status byte is 0 and is
\* what it was before otherwise, and Status.Volume and
\* Status.MemoryInserted are what they were before.
C17_StatusReply ==
  FedFromEmpty(C17Frames) =>
    /\ rxLog[Len(rxLog)].Ret = YX5300_RX_COMPLETE
    /\ Status.StatusByte = Fed[7]
    /\ Status.Track = IF Status.StatusByte = 0 THEN 0 ELSE Cached0.Track
    /\ Status.Volume = Cached0.Volume
    /\ Status.MemoryInserted = Cached0.MemoryInserted

\* a status reply other than stopped arrived while a track was cached
C17_Witness ==
  /\ FedFromEmpty(C17Frames)
  /\ Status.StatusByte = 1
  /\ Cached0.Track # 0
  /\ Status.Track = Cached0.Track

\* C15: Status.Volume, Status.Track, Status.StatusByte and
\* Status.MemoryInserted change only in a YX5300_Rx call that returns
\* YX5300_RX_COMPLETE; Rx calls returning YX5300_OK or YX5300_FAIL, the
\* command and query operations, YX5300_Init and YX5300_DeInit leave all
\* four as they are.
C15_CachedChangeOnlyOnComplete ==
  [][Cached(Status') # Cached(Status) =>
       (/\ last'.op = "Rx"
        /\ last'.Ret = YX5300_RX_COMPLETE
        /\ Len(rxLog') = Len(rxLog) + 1
        /\ rxLog'[Len(rxLog')].Ret = YX5300_RX_COMPLETE)]_vars

\* a completed reply changed a cached field after a command had been sent
C15_Witness ==
  /\ last.op = "Rx"
  /\ last.Ret = YX5300_RX_COMPLETE
  /\ Cached(Status) # Cached0
  /\ Status.LastCommand # 0

\* C18: Status.Volume is within 0..30 in every state reached from the zero
\* handler by inbound bytes and command operations.
C18_VolumeInRange == Status.Volume \in 0..30

\* C19: whenever YX5300_Rx returns YX5300_RX_COMPLETE or YX5300_FAIL, the
\* end marker was stored at offset 7 or later, so that offsets 3, 5 and 6
\* hold bytes of the frame being completed; an end marker stored at an
\* offset in 1..6 leaves Status as it was.
C19_OutcomeFromOwnBytes ==
  \A i \in 1..Len(rxLog) :
    /\ rxLog[i].Ret # YX5300_OK => rxLog[i].At >= 7
    /\ (rxLog[i].Data = YX5300_CMD_END_BYTE /\ rxLog[i].At \in 1..6) =>
         rxLog[i].Kept

\* a start marker, eight bytes that are neither marker, an end marker
IsFrame(bytes) ==
  /\ Len(bytes) = YX5300_RESPONSE_SIZE
  /\ bytes[1] = YX5300_CMD_START_BYTE
  /\ bytes[YX5300_RESPONSE_SIZE] = YX5300_CMD_END_BYTE
  /\ \A i \in 2..(YX5300_RESPONSE_SIZE - 1) :
       bytes[i] \notin {YX5300_CMD_START_BYTE, YX5300_CMD_END_BYTE}

\* C20: whatever the cursor and the buffer are, ten calls of YX5300_Rx with
\* the bytes of a well-formed frame leave the cursor at 0, and a second
\* well-formed frame fed right after it returns YX5300_OK on its first nine
\* bytes and YX5300_RX_COMPLETE or YX5300_FAIL on its tenth.
C20_ResyncAfterOneFrame ==
  (Len(rxLog) >= 10 /\ IsFrame(SubSeq(Fed, 1, 10))) =>
    /\ CursorAfter(10) = 0
    /\ (Len(rxLog) = 20 /\ IsFrame(SubSeq(Fed, 11, 20))) =>
         /\ \A j \in 11..19 : rxLog[j].Ret = YX5300_OK
         /\ rxLog[20].Ret \in {YX5300_RX_COMPLETE, YX5300_FAIL}

\* the first of two frames arrived in the middle of an unfinished one and
\* was lost, the second was parsed
C20_Witness ==
  /\ Len(rxLog) = 20
  /\ IsFrame(SubSeq(Fed, 1, 10))
  /\ IsFrame(SubSeq(Fed, 11, 20))
  /\ rxLog[1].Index \in 1..9
  /\ \A j \in 1..10 : rxLog[j].Ret = YX5300_OK
  /\ rxLog[20].Ret = YX5300_RX_COMPLETE

\* the i-th call of the run stored a start marker at offset 0 and the nine
\* calls after it were made with bytes other than the end marker
Overrun(i) ==
  /\ i + 9 <= Len(rxLog)
  /\ rxLog[i].At = 0
  /\ rxLog[i].Data = YX5300_CMD_START_BYTE
  /\ \A j \in (i + 1)..(i + 9) : rxLog[j].Data # YX5300_CMD_END_BYTE

\* C21: when a start marker is followed by nine bytes none of which is the
\* end marker, each of the ten calls returns YX5300_OK and leaves Status as
\* it was, the cursor ends at the capacity, and the next byte is stored at
\* offset 0 with YX5300_OK and Status unchanged: the cursor becomes 1 if the
\* byte is the start marker and stays 0 otherwise.
C21_OverrunThenNextByte ==
  \A i \in 1..Len(rxLog) :
    Overrun(i) =>
      /\ \A j \in i..(i + 9) : rxLog[j].Ret = YX5300_OK /\ rxLog[j].Kept
      /\ CursorAfter(i + 9) = YX5300_RESPONSE_SIZE
      /\ i + 10 <= Len(rxLog) =>
           /\ rxLog[i + 10].At = 0
           /\ rxLog[i + 10].Ret = YX5300_OK
           /\ rxLog[i + 10].Kept
           /\ CursorAfter(i + 10) =
                IF rxLog[i + 10].Data = YX5300_CMD_START_BYTE THEN 1 ELSE 0

\* the byte after an overrun was a start marker and began a frame
C21_Witness ==
  /\ Len(rxLog) = 11
  /\ Overrun(1)
  /\ rxLog[1].Index = 0
  /\ rxLog[11].Data = YX5300_CMD_START_BYTE
  /\ Rx.BufferIndex = 1
  /\ Rx.Buffer[0] = YX5300_CMD_START_BYTE

\* C23: a call of YX5300_Rx with the start marker while the cursor is in
\* 1..9 returns YX5300_OK, stores the byte at the cursor, advances the
\* cursor by one and changes nothing else of the buffer or of Status.
C23_StartMarkerInsideFrame ==
  [][(/\ wire # <<>>
      /\ Len(rxLog') = Len(rxLog) + 1
      /\ Head(wire) = YX5300_CMD_START_BYTE
      /\ Rx.BufferIndex \in 1..(YX5300_RESPONSE_SIZE - 1)) =>
       (/\ last'.Ret = YX5300_OK
        /\ Rx'.BufferIndex = Rx.BufferIndex + 1
        /\ Rx'.Buffer = [Rx.Buffer EXCEPT ![Rx.BufferIndex] = YX5300_CMD_START_BYTE]
        /\ Status' = Status)]_vars

\* a second start marker was stored at offset 4 of a frame in progress
C23_Witness ==
  /\ rxLog # <<>>
  /\ rxLog[Len(rxLog)].Data = YX5300_CMD_START_BYTE
  /\ rxLog[Len(rxLog)].Index = 4
  /\ Rx.BufferIndex = 5
  /\ Rx.Buffer[4] = YX5300_CMD_START_BYTE
  /\ Rx.Buffer[3] = 67
  /\ Rx.Buffer[0] = YX5300_CMD_START_BYTE

\* 7E FF 06 3A 00 00 00 00 00 EF
C26Frames == {Frame(58, 0, 0, 0, 0)}

\* C26: a completed frame with response code 0x3A returns
\* YX5300_RX_COMPLETE and leaves Status.MemoryInserted at 1, and no step of
\* reception, of a command operation, of YX5300_Init or of YX5300_DeInit
\* takes Status.MemoryInserted from 1 to another value.
C26_MemoryInsertedMonotone ==
  /\ [](FedFromEmpty(C26Frames) =>
          /\ rxLog[Len(rxLog)].Ret = YX5300_RX_COMPLETE
          /\ Status.MemoryInserted = 1)
  /\ [][Status.MemoryInserted = 1 => Status'.MemoryInserted = 1]_vars

\* the flag is still set after an unrecognised reply, a command and
\* YX5300_DeInit followed the card notification
C26_Witness ==
  /\ Status.MemoryInserted = 1
  /\ chunks = 2
  /\ wire = <<>>
  /\ Fed \in {Frame(c, 0, 0, 0, 0) : c \in UnknownCodes}
  /\ Status.LastCommand # 0
  /\ last.op = "DeInit"

\* replies with a nonzero byte at offset 5
C27Frames == WideReplies \cup HighByteReplies

\* C27: after a reply fed from cursor 0, Status.LastResponseData is the
\* byte at offset 5 times 256 plus the byte at offset 6; a 0x43 reply leaves
\* Status.Volume at the byte at offset 6 and a 0x42 reply leaves
\* Status.StatusByte at the byte at offset 6, and when that byte is 0 the
\* status reply resets Status.Track to 0 although Status.LastResponseData is
\* not 0; a 0x48 reply leaves all sixteen bits in Status.Track.
C27_DataWidths ==
  FedFromEmpty(C27Frames) =>
    /\ rxLog[Len(rxLog)].Ret = YX5300_RX_COMPLETE
    /\ Status.LastResponseData = Fed[6] * 256 + Fed[7]
    /\ Status.LastResponseData > 255
    /\ Fed[4] = 67 => Status.Volume = Fed[7]
    /\ Fed[4] = 66 =>
         /\ Status.StatusByte = Fed[7]
         /\ Status.Track = IF Fed[7] = 0 THEN 0 ELSE Cached0.Track
    /\ Fed[4] = 72 => Status.Track = Fed[6] * 256 + Fed[7]

\* the status reply 7E FF 06 42 00 01 00 FE BA EF reset a cached track
C27_Witness ==
  /\ FedFromEmpty({Frame(66, 1, 0, 254, 186)})
  /\ Cached0.Track > 255
  /\ Status.Track = 0
  /\ Status.StatusByte = 0
  /\ Status.LastResponseData = 256

\* the step is a call of YX5300_Rx
RxStep == Len(rxLog') = Len(rxLog) + 1

\* the step is a call of YX5300_Rx that parsed the buffer
RxCompletes == RxStep /\ rxLog'[Len(rxLog')].Ret # YX5300_OK

\* the step is a command operation returning ret
CommandReturns(ret) ==
  /\ chunks' = chunks
  /\ rxLog' = rxLog
  /\ last'.op \in CommandNames
  /\ last'.Ret = ret

LastResponseCleared(St) == St.LastResponse = 0 /\ St.LastResponseData = 0

\* C24: a command operation returning YX5300_OK leaves LastResponse and
\* LastResponseData at 0; they stay 0 over every step that is not a call of
\* YX5300_Rx returning YX5300_RX_COMPLETE or YX5300_FAIL; and a call of
\* YX5300_Rx returning YX5300_OK changes none of LastResponse,
\* LastResponseData, LastCommand and LastCommandData.
C24_ResponseClearedUntilReply ==
  [][/\ CommandReturns(YX5300_OK) => LastResponseCleared(Status')
     /\ (LastResponseCleared(Status) /\ ~RxCompletes) =>
          LastResponseCleared(Status')
     /\ (RxStep /\ ~RxCompletes) =>
          /\ Status'.LastResponse = Status.LastResponse
          /\ Status'.LastResponseData = Status.LastResponseData
          /\ Status'.LastCommand = Status.LastCommand
          /\ Status'.LastCommandData = Status.LastCommandData]_vars

\* a command cleared a parsed reply and the next reply is on its way in
C24_Witness ==
  /\ Status.Volume = 26
  /\ LastResponseCleared(Status)
  /\ Status.LastCommand = YX5300_CMD_QUERY_VOLUME
  /\ last.op = "Rx"
  /\ last.Ret = YX5300_OK
  /\ Rx.BufferIndex = 7

\* C22: every call of YX5300_Rx stores its byte at an offset in 0..9 of the
\* buffer, at the cursor when the cursor is below the capacity and at 0
\* otherwise, whatever the cursor was when the handler was first used.
C22_WriteInsideBuffer ==
  /\ \A i \in 1..Len(rxLog) :
       /\ rxLog[i].At \in 0..(YX5300_RESPONSE_SIZE - 1)
       /\ rxLog[i].At = IF rxLog[i].Index < YX5300_RESPONSE_SIZE
                          THEN rxLog[i].Index ELSE 0
  /\ rxLog # <<>> =>
       Rx.Buffer[rxLog[Len(rxLog)].At] = rxLog[Len(rxLog)].Data

\* the first call was made with the cursor at 255 and began a frame
C22_Witness ==
  /\ chunks = 1
  /\ Len(rxLog) = 10
  /\ rxLog[1].Index = 255
  /\ rxLog[1].At = 0
  /\ rxLog[10].Ret = YX5300_RX_COMPLETE

\* the i-th call of the run completed a well-formed frame after the send
\* of the command in cmd had returned, and no later call parsed the buffer
ReplyAfterSend(i) ==
  /\ i \in YX5300_RESPONSE_SIZE..Len(rxLog)
  /\ chunks > cmd.run \/ i > cmd.logAt
  /\ rxLog[i].Ret = YX5300_RX_COMPLETE
  /\ rxLog[i - 9].At = 0
  /\ IsFrame(SubSeq(Fed, i - 9, i))
  /\ \A j \in (i + 1)..Len(rxLog) : rxLog[j].Ret = YX5300_OK

\* C25: with YX5300_Rx called between the statements of
\* YX5300_SendCommand, once the command operation has returned YX5300_OK,
\* LastResponse and LastResponseData hold the code and the data of the
\* frame that YX5300_Rx completed after the send had returned.
C25_ReplyNotLost ==
  (/\ cmd.pc = "idle"
   /\ last.op = cmd.op
   /\ last.op \in CommandNames
   /\ last.Ret = YX5300_OK) =>
     \A i \in 1..Len(rxLog) :
       ReplyAfterSend(i) =>
         /\ Status.LastResponse = Fed[i - 6]
         /\ Status.LastResponseData = Fed[i - 4] * 256 + Fed[i - 3]

====
